---- MODULE Spec2Model ----
(***************************************************************************)
(* Model of the court-data-fetcher: scraper.py (fetch_ecourts_data),       *)
(* causelist_scraper.py (content classification, PDF parser capability)    *)
(* and app.py (the /fetch and /submit_captcha routes, check_watches).      *)
(*                                                                         *)
(* Text is a sequence of atomic chunks (words, separators, single spaces); *)
(* the string it stands for is the concatenation of its chunks.  Python's  *)
(* str.lower, str.strip, `in` and str.endswith are computed chunk by       *)
(* chunk.  None is a reserved chunk / a reserved string.                   *)
(***************************************************************************)
EXTENDS Integers, Sequences, FiniteSets, TLC

VARIABLES
    pc,                 \* position of the running handler / function
    focus,              \* which family of inputs the behaviour draws from
    case_details,       \* criteria mapping handed to fetch_ecourts_data
    captcha_input,      \* solved CAPTCHA text handed to fetch_ecourts_data
    initial_form_data,  \* form snapshot handed to fetch_ecourts_data
    state_lc,           \* `state` of scraper.py:89
    form_data,          \* submission payload being built
    select_options,     \* select name -> (label -> value), in order
    post_url,           \* resolved POST target
    reqs,               \* every HTTP request issued, in order
    response,           \* the POST response being processed
    dumps,              \* diagnostic dump files written
    result,             \* what fetch_ecourts_data returned (or raised)
    url,                \* cause-list URL handed to fetch_causelist_content
    fetched,            \* what fetch_causelist_content returned
    document,           \* markup handed to parse_causelist_html
    entries,            \* what parse_causelist_html returned
    form,               \* the form submitted to the web route
    session,            \* Flask session of the user
    stored_by,          \* session key -> number of the request that stored it
    queries,            \* CaseQuery rows
    answer,             \* body answered by the last web request
    served,             \* web requests handled so far
    watches,            \* Watch rows
    notifications,      \* Notification rows
    extract_text,       \* PDF text-extraction capability present?
    pass,               \* bookkeeping of the running check_watches pass
    passes              \* completed check_watches passes

vars == <<pc, focus, case_details, captcha_input, initial_form_data, state_lc,
          form_data, select_options, post_url, reqs, response, dumps, result,
          url, fetched, document, entries, form, session, stored_by, queries, answer, served, watches, notifications,
          extract_text, pass, passes>>

searchVars == <<case_details, captcha_input, initial_form_data, state_lc, form_data,
                select_options, post_url, reqs, response, dumps, result>>
classifyVars == <<url, fetched, document, entries>>
webVars == <<form, session, stored_by, queries, answer, served>>
watchVars == <<watches, notifications, extract_text, pass, passes>>

-----------------------------------------------------------------------------
(* Python values *)

None == "<None>"
NoneT == <<"<None>">>
SP == " "

Truthy(s) == s # None /\ s # ""
TruthyT(t) == t # NoneT /\ t # <<>>

(* str.lower(), chunk by chunk *)
LowerTok(t) ==
    CASE t = "Invalid" -> "invalid"
      [] t = "CAPTCHA" -> "captcha"
      [] t = "Captcha" -> "captcha"
      [] t = "Record" -> "record"
      [] t = "No" -> "no"
      [] t = "NOT" -> "not"
      [] t = "Not" -> "not"
      [] t = "Found" -> "found"
      [] t = "Andhra" -> "andhra"
      [] t = "Pradesh" -> "pradesh"
      [] t = "High" -> "high"
      [] t = "Court" -> "court"
      [] t = "Principal" -> "principal"
      [] t = "Bench" -> "bench"
      [] t = "Madurai" -> "madurai"
      [] t = "Kerala" -> "kerala"
      [] t = "Case" -> "case"
      [] t = "Type" -> "type"
      [] t = "Number" -> "number"
      [] t = "Sr" -> "sr"
      [] t = "Parties" -> "parties"
      [] t = "Party" -> "party"
      [] t = "View" -> "view"
      [] t = "VIEW" -> "view"
      [] t = "Status" -> "status"
      [] t = "Filing" -> "filing"
      [] t = "Filed" -> "filed"
      [] t = "Next" -> "next"
      [] t = "Hearing" -> "hearing"
      [] t = "Date" -> "date"
      [] t = "Judgment" -> "judgment"
      [] t = "CRL.A" -> "crl.a"
      [] t = "CASE" -> "case"
      [] t = "Petitioner" -> "petitioner"
      [] t = "RECORD" -> "record"
      [] t = "TABLE_VAL" -> "table_val"
      [] t = "VS" -> "vs"
      [] t = "Bar" -> "bar"
      [] t = "Foo" -> "foo"
      [] t = "Id" -> "id"
      [] t = "Home" -> "home"
      [] t = "Open" -> "open"
      [] t = "Select" -> "select"
      [] t = "E" -> "e"
      [] t = "Pending" -> "pending"
      [] t = "X1" -> "x1"
      [] t = "%PDF" -> "%pdf"
      [] t = "P" -> "p"
      [] t = "NO" -> "no"
      [] t = "CNR" -> "cnr"
      [] t = "Notice" -> "notice"
      [] t = "C" -> "c"
      [] t = "D" -> "d"
      [] t = "A" -> "a"
      [] t = "B" -> "b"
      [] t = "WP" -> "wp"
      [] t = ".PDF" -> ".pdf"
      [] t = ".Pdf" -> ".pdf"
      [] t = "Application/PDF" -> "application/pdf"
      [] t = "LIST" -> "list"
      [] OTHER -> t

Lower(t) == [i \in DOMAIN t |-> LowerTok(t[i])]

(* needle in hay *)
Contains(hay, needle) ==
    \E i \in 1..(Len(hay) + 1) :
        /\ i + Len(needle) - 1 <= Len(hay)
        /\ SubSeq(hay, i, i + Len(needle) - 1) = needle

(* hay.endswith(suffix) *)
EndsWith(hay, suffix) ==
    /\ Len(suffix) <= Len(hay)
    /\ SubSeq(hay, Len(hay) - Len(suffix) + 1, Len(hay)) = suffix

RECURSIVE LStrip(_)
LStrip(t) == IF t # <<>> /\ Head(t) = SP THEN LStrip(Tail(t)) ELSE t

RECURSIVE RStrip(_)
RStrip(t) ==
    IF t # <<>> /\ t[Len(t)] = SP THEN RStrip(SubSeq(t, 1, Len(t) - 1)) ELSE t

(* str.strip() *)
Strip(t) == RStrip(LStrip(t))

(* ' '.join(parts) *)
RECURSIVE JoinSp(_)
JoinSp(parts) ==
    IF parts = <<>> THEN <<>>
    ELSE IF Len(parts) = 1 THEN parts[1]
    ELSE parts[1] \o <<SP>> \o JoinSp(Tail(parts))

RECURSIVE Flatten(_)
Flatten(parts) == IF parts = <<>> THEN <<>> ELSE parts[1] \o Flatten(Tail(parts))

(* a dict as a function with a finite domain *)
EmptyDict == [k \in {} |-> ""]
Put(d, k, v) == [x \in DOMAIN d \cup {k} |-> IF x = k THEN v ELSE d[x]]
Update(d, e) == [x \in DOMAIN d \cup DOMAIN e |-> IF x \in DOMAIN e THEN e[x] ELSE d[x]]
SetDefault(d, k, v) == IF k \in DOMAIN d THEN d ELSE Put(d, k, v)
Get(d, k, default) == IF k \in DOMAIN d THEN d[k] ELSE default

(* an insertion-ordered dict as a sequence of [k, v]: a key set again keeps *)
(* its place and takes the new value (last wins)                            *)
OPut(od, k, v) ==
    IF \E i \in DOMAIN od : od[i].k = k
    THEN [i \in DOMAIN od |-> IF od[i].k = k THEN [k |-> k, v |-> v] ELSE od[i]]
    ELSE Append(od, [k |-> k, v |-> v])

OHas(od, k) == \E i \in DOMAIN od : od[i].k = k
OGet(od, k) == od[CHOOSE i \in DOMAIN od : od[i].k = k].v

(* index of the first element satisfying a test, 0 when none *)
FirstIdx(s, Test(_)) ==
    IF \E i \in DOMAIN s : Test(s[i])
    THEN CHOOSE i \in DOMAIN s : Test(s[i]) /\ \A j \in 1..(i - 1) : ~Test(s[j])
    ELSE 0

-----------------------------------------------------------------------------
(* scraper.py: constants *)

SEARCH_FORM_URL == "https://hcservices.ecourts.gov.in/hcservices/cases_qry/index_qry.php"
search_url == "https://hcservices.ecourts.gov.in/hcservices/cases_qry/index_qry.php?action_code=showRecords"

(* urllib.parse.urljoin(SEARCH_FORM_URL, action) on the actions of the model *)
UrlJoinForm(action) ==
    CASE action = "index_qry.php?action_code=showRecords" -> search_url
      [] action = "case_no.php" -> "https://hcservices.ecourts.gov.in/hcservices/cases_qry/case_no.php"
      [] OTHER -> action

(* urllib.parse.urljoin(page_url, href) for the relative hrefs of the model *)
UrlJoin(base, href) ==
    IF href = "https://judgments.ecourts.gov.in/j1.pdf" THEN href
    ELSE "https://hcservices.ecourts.gov.in/hcservices/cases_qry/" \o href

(* the text of a payload key or select name, for the substring tests on names *)
KeyText(k) ==
    CASE k = "cino" -> <<"cino">>
      [] k = "court_code" -> <<"court", "_", "code">>
      [] k = "Court_Code" -> <<"Court", "_", "code">>
      [] k = "state_code" -> <<"state", "_", "code">>
      [] k = "bench" -> <<"bench">>
      [] k = "Bench_id" -> <<"Bench", "_", "id">>
      [] k = "location_code" -> <<"location", "_", "code">>
      [] k = "party_type" -> <<"party", "_", "type">>
      [] k = "party_name" -> <<"party", "_", "name">>
      [] k = "party" -> <<"party">>
      [] k = "case_status" -> <<"case", "_", "status">>
      [] k = "Status" -> <<"Status">>
      [] k = "status" -> <<"status">>
      [] k = "case_type" -> <<"case", "_", "type">>
      [] k = "case_no" -> <<"case", "_", "no">>
      [] OTHER -> <<k>>

NameHas(name, word) == Contains(Lower(KeyText(name)), <<word>>)

(* A served form page: hidden inputs (name -> value) and its selects in      *)
(* document order, each [name, options], an option [text, value] with value  *)
(* None when the option has no value attribute.                              *)

(* label of an option: opt.get_text(separator=' ').strip() *)
OptLabel(opt) == Strip(opt.text)

(* scraper.py:62-66 / 125-129: label -> value of one select, value '' when absent *)
RECURSIVE OptsDict(_, _)
OptsDict(options, acc) ==
    IF options = <<>> THEN acc
    ELSE OptsDict(Tail(options),
                  OPut(acc, OptLabel(Head(options)),
                       IF Head(options).value = None THEN "" ELSE Head(options).value))

(* scraper.py:57-67 / 121-130: select name -> options dict, nameless selects skipped *)
RECURSIVE SelectsDict(_, _)
SelectsDict(selects, acc) ==
    IF selects = <<>> THEN acc
    ELSE SelectsDict(Tail(selects),
                     IF Head(selects).name = "" THEN acc
                     ELSE OPut(acc, Head(selects).name, OptsDict(Head(selects).options, <<>>)))

(* scraper.py:41-85 fetch_search_form on a served page *)
fetch_search_form(page) ==
    [kind |-> "snap", hidden |-> page.hidden,
     select_options |-> SelectsDict(page.selects, <<>>),
     action |-> page.action]

(* text of a select: the option texts joined *)
SelText(sel) == Lower(JoinSp([i \in DOMAIN sel.options |-> sel.options[i].text]))
SelStrippedText(sel) == JoinSp([i \in DOMAIN sel.options |-> Lower(Strip(sel.options[i].text))])

(* scraper.py:153-167: the jurisdiction heuristic of the re-fetched page *)
RefetchState(fd, page, state) ==
    LET Hit(sel) == /\ Contains(SelStrippedText(sel), state)
                    /\ (NameHas(sel.name, "cino") \/ NameHas(sel.name, "court")
                        \/ NameHas(sel.name, "state"))
        i == FirstIdx(page.selects, Hit)
    IN  IF i = 0 THEN fd
        ELSE LET sel == page.selects[i]
                 Mentions(opt) == Contains(Lower(opt.text), state)
                 j == FirstIdx(sel.options, Mentions)
             IN  IF j # 0 /\ Truthy(sel.options[j].value)
                 THEN Put(fd, sel.name, sel.options[j].value)
                 ELSE fd

(* scraper.py:170-176: every bench-like select takes its first 'principal' option *)
RECURSIVE RefetchBench(_, _)
RefetchBench(fd, selects) ==
    IF selects = <<>> THEN fd
    ELSE LET sel == Head(selects)
             Princ(opt) == Contains(Lower(opt.text), <<"principal">>)
             j == FirstIdx(sel.options, Princ)
             hit == NameHas(sel.name, "bench") \/ NameHas(sel.name, "location")
                    \/ Contains(SelText(sel), <<"principal">>)
         IN  RefetchBench(IF hit /\ j # 0 THEN Put(fd, sel.name, sel.options[j].value) ELSE fd,
                          Tail(selects))

(* scraper.py:179-186: the first party-like select defaults to its first option *)
RefetchParty(fd, page) ==
    LET Hit(sel) == \/ NameHas(sel.name, "party")
                    \/ Contains(SelText(sel), <<"petitioner">>)
                    \/ Contains(SelText(sel), <<"respondent">>)
        i == FirstIdx(page.selects, Hit)
    IN  IF i = 0 THEN fd
        ELSE LET sel == page.selects[i]
             IN  IF sel.options # <<>> /\ sel.name \notin DOMAIN fd
                 THEN Put(fd, sel.name, sel.options[1].value)
                 ELSE fd

(* scraper.py:142-186: hidden inputs of the re-fetched page, then the heuristics *)
RefetchMerge(fd, page, state) ==
    RefetchParty(RefetchBench(RefetchState(Update(fd, page.hidden), page, state),
                              page.selects), page)

-----------------------------------------------------------------------------
(* scraper.py:192-276: the payload *)

Some(x) == <<x>>
Nothing == <<>>

(* scraper.py:210-220 / 231-240: exact label first, containment when `not found` *)
MatchOption(opts, user) ==
    LET u == Lower(Strip(user))
        Exact(o) == u = Lower(Strip(o.k))
        Sub(o) == Contains(Lower(Strip(o.k)), u)
        e == FirstIdx(opts, Exact)
        s == FirstIdx(opts, Sub)
        found == IF e = 0 THEN None ELSE opts[e].v
    IN  IF Truthy(found) THEN found
        ELSE IF s = 0 THEN found ELSE opts[s].v

IsJurisdictionName(entry) ==
    NameHas(entry.k, "cino") \/ NameHas(entry.k, "court") \/ NameHas(entry.k, "state")

IsBenchName(entry) == NameHas(entry.k, "bench") \/ NameHas(entry.k, "location")

(* scraper.py:203-222 *)
ResolveState(fd, so, user_state) ==
    LET i == FirstIdx(so, IsJurisdictionName)
    IN  IF i # 0 /\ user_state # <<>>
        THEN LET found == MatchOption(so[i].v, user_state)
             IN  IF Truthy(found) THEN Put(fd, so[i].k, found) ELSE fd
        ELSE fd

(* scraper.py:225-242 *)
ResolveBench(fd, so, user_bench) ==
    LET i == FirstIdx(so, IsBenchName)
    IN  IF i # 0 /\ user_bench # <<>>
        THEN LET found == MatchOption(so[i].v, user_bench)
             IN  IF Truthy(found) THEN Put(fd, so[i].k, found) ELSE fd
        ELSE fd

(* x or '' *)
OrEmptyT(t) == IF TruthyT(t) THEN t ELSE <<>>

(* scraper.py:194-195 *)
CinoFallback(fd) == SetDefault(fd, "cino", "HCTN01")

(* scraper.py:249-254 *)
CoreFields(fd, cd, captcha) ==
    Update(fd, [case_type |-> Get(cd, "case_type", ""),
                case_no |-> Get(cd, "case_number", ""),
                year |-> Get(cd, "case_year", ""),
                captcha_code |-> captcha])

(* scraper.py:257-270 *)
OptionalFields(fd, cd) ==
    LET Has(k) == Truthy(Get(cd, k, None))
        f1 == IF Has("cino") THEN Put(fd, "cino", cd["cino"]) ELSE fd
        f2 == IF Has("party_name")
              THEN SetDefault(SetDefault(f1, "party_name", cd["party_name"]),
                              "party", cd["party_name"])
              ELSE f1
        f3 == IF Has("filing_number") THEN SetDefault(f2, "filing_no", cd["filing_number"]) ELSE f2
        f4 == IF Has("advocate_name") THEN SetDefault(f3, "advocate", cd["advocate_name"]) ELSE f3
        f5 == IF Has("fir_number") THEN SetDefault(f4, "fir_no", cd["fir_number"]) ELSE f4
    IN  IF Has("act") THEN SetDefault(f5, "act", cd["act"]) ELSE f5

(* scraper.py:273-275 *)
StatusDefault(fd) ==
    IF \E k \in DOMAIN fd : NameHas(k, "status") THEN fd ELSE SetDefault(fd, "status", "B")

(* scraper.py:192-276 *)
BuildPayload(fd, so, cd, captcha) ==
    LET user_state == OrEmptyT(Get(cd, "state", NoneT))
        user_bench == OrEmptyT(Get(cd, "bench", NoneT))
        mapped == ResolveBench(ResolveState(CinoFallback(fd), so, user_state), so, user_bench)
    IN  StatusDefault(OptionalFields(CoreFields(mapped, cd, captcha), cd))

-----------------------------------------------------------------------------
(* scraper.py:294-455: the response body *)
(* A body is [pre, tables]: free text, then tables in document order.  A    *)
(* table is a sequence of rows, a row a sequence of cells, a cell           *)
(* [th, text, a]: th says <th> (else <td>), a is the anchors of the cell,   *)
(* an anchor [text, href] with href None when the attribute is missing.     *)

TAG == "<>"

AnchorTexts(c) == [i \in DOMAIN c.a |-> c.a[i].text]

(* cell.get_text(separator=' ') *)
CellRaw(c) ==
    IF c.a = <<>> THEN c.text
    ELSE IF c.text = <<>> THEN JoinSp(AnchorTexts(c))
    ELSE JoinSp(<<c.text>> \o AnchorTexts(c))

(* cell.get_text(separator=' ').strip() *)
CellText(c) == Strip(CellRaw(c))

RowMarkup(row) == Flatten([i \in DOMAIN row |-> <<TAG>> \o CellRaw(row[i])])
TableMarkup(tbl) == Flatten([i \in DOMAIN tbl |-> <<TAG>> \o RowMarkup(tbl[i])])

(* response.text: the markup as one string *)
RawHtml(body) == body.pre \o Flatten([i \in DOMAIN body.tables |-> TableMarkup(body.tables[i])])

(* scraper.py:299-300 *)
NegativePhrases ==
    { <<"invalid", SP, "captcha">>, <<"record", SP, "not", SP, "found">>,
      <<"no", SP, "record", SP, "found">> }

(* mutant: the phrases are matched case-sensitively *)
IsNegative_CaseSensitive(body) == \E p \in NegativePhrases : Contains(RawHtml(body), p)

IsNegative(body) == \E p \in NegativePhrases : Contains(Lower(RawHtml(body)), p)

(* scraper.py:305-307 *)
header_keywords ==
    { <<"case", SP, "type">>, <<"case", SP, "number">>, <<"case", SP, "year">>,
      <<"sr", SP, "no">>, <<"petitioner">>, <<"respondent">>, <<"party">>, <<"view">> }

RowHasTh(row) == \E i \in DOMAIN row : row[i].th
TdCells(row) == SelectSeq(row, LAMBDA c : ~c.th)
ThCells(row) == SelectSeq(row, LAMBDA c : c.th)

(* scraper.py:310-319: the header text of a table *)
HeaderText(tbl) ==
    LET ths == Flatten([i \in DOMAIN tbl |-> ThCells(tbl[i])])
        cells == IF ths # <<>> THEN ths ELSE IF tbl # <<>> THEN tbl[1] ELSE <<>>
    IN  JoinSp([i \in DOMAIN cells |-> Lower(CellText(cells[i]))])

(* scraper.py:320 *)
HeaderQualifies(tbl) == \E k \in header_keywords : Contains(HeaderText(tbl), k)

IsViewAnchor(a) == Contains(Lower(a.text), <<"view">>)
RowAnchors(row) == Flatten([i \in DOMAIN row |-> row[i].a])
TableAnchors(tbl) == Flatten([i \in DOMAIN tbl |-> RowAnchors(tbl[i])])
HasViewLink(tbl) == \E i \in DOMAIN TableAnchors(tbl) : IsViewAnchor(TableAnchors(tbl)[i])

(* scraper.py:304-335: index of the results table, 0 when none *)
find_results_table(body) ==
    LET i == FirstIdx(body.tables, HeaderQualifies)
    IN  IF i # 0 THEN i ELSE FirstIdx(body.tables, HasViewLink)

(* scraper.py:374-380: a row the loop does not skip *)
RowUsable(row) == ~RowHasTh(row) /\ Len(TdCells(row)) >= 2

(* scraper.py:374-450: the loop breaks at the first row it does not skip *)
ChosenRow(tbl) == FirstIdx(tbl, RowUsable)

(* scraper.py:389 *)
ViewAnchor(row) ==
    LET as == RowAnchors(row)
        i == FirstIdx(as, IsViewAnchor)
    IN  IF i # 0 THEN Some(as[i]) ELSE IF as # <<>> THEN Some(as[1]) ELSE Nothing

(* scraper.py:391 *)
FollowsDetail(row) == ViewAnchor(row) # Nothing /\ Truthy(ViewAnchor(row)[1].href)

(* A detail page is [html, tables, anchors]: html "" for an empty body; a   *)
(* table [class, rows] with rows of td texts; anchors [text, href].         *)

DetailTableText(t) ==
    Lower(JoinSp([i \in DOMAIN t.rows |-> JoinSp(t.rows[i])]))

(* scraper.py:411-418 *)
FindDetailTable(page) ==
    LET ByClass(t) == Contains(Lower(t.class), <<"table_val">>)
        ByText(t) == \E w \in {"petitioner", "respondent", "filed", "hearing"} :
                         Contains(DetailTableText(t), <<w>>)
        i == FirstIdx(page.tables, ByClass)
    IN  IF i # 0 THEN i ELSE FirstIdx(page.tables, ByText)

(* scraper.py:422-432: the last row whose label matches gives the value *)
RECURSIVE DetailField(_, _, _)
DetailField(rows, Match(_), acc) ==
    IF rows = <<>> THEN acc
    ELSE LET r == Head(rows)
         IN  DetailField(Tail(rows), Match,
                         IF Len(r) >= 2 /\ Match(Lower(Strip(r[1]))) THEN Strip(r[2]) ELSE acc)

IsFilingLabel(l) == Contains(l, <<"filed">>) \/ Contains(l, <<"filing">>)
IsNextHearingLabel(l) == Contains(l, <<"next">>) /\ Contains(l, <<"hearing">>)
IsStatusLabel(l) == Contains(l, <<"status">>)

(* scraper.py:434-436 *)
JudgmentLink(page) ==
    LET J(a) == a.href # None /\ Contains(Lower(a.text), <<"judgment">>)
        i == FirstIdx(page.anchors, J)
    IN  IF i = 0 THEN None ELSE UrlJoin("", page.anchors[i].href)

NotFound == <<"Not", SP, "Found">>

(* mutant: a missing value is kept as it is *)
OrNotFound_Keep(t) == t

(* x or 'Not Found' *)
OrNotFound(t) == IF TruthyT(t) THEN t ELSE NotFound

(* scraper.py:383-446: the ParsedCase of a row and its detail page *)
ParseRow(row, detail) ==
    LET cells == TdCells(row)
        case_ref == CellText(cells[2])
        parties == IF Len(cells) >= 3 THEN CellText(cells[3]) ELSE NoneT
        has == detail # Nothing /\ detail[1].html # ""
        page == detail[1]
        t == IF has THEN FindDetailTable(page) ELSE 0
        rows == IF t # 0 THEN page.tables[t].rows ELSE <<>>
    IN  [case_ref |-> case_ref,
         parties |-> OrNotFound(parties),
         filing_date |-> OrNotFound(DetailField(rows, IsFilingLabel, NoneT)),
         next_hearing_date |-> OrNotFound(DetailField(rows, IsNextHearingLabel, NoneT)),
         case_status |-> OrNotFound(DetailField(rows, IsStatusLabel, NoneT)),
         judgment_link |-> IF t # 0 THEN JudgmentLink(page) ELSE None,
         detail_page_html |-> detail]

-----------------------------------------------------------------------------
(* bounds and input families *)

MaxOpts == 2      \* options per select of the snapshot
MaxRows == 2      \* data rows per results table
MaxTables == 2    \* tables per response body
MaxOptional == 2  \* optional values a search gives

AP == <<"Andhra", SP, "Pradesh">>
APHC == <<"Andhra", SP, "Pradesh", SP, "High", SP, "Court">>
KER == <<"Kerala">>

Labels == {AP, APHC, KER}
(* the value of the option labelled l when it has one; an option may also *)
(* carry the empty value                                                  *)
ValueOf(l) == IF l = AP THEN "AP1" ELSE IF l = APHC THEN "AP2" ELSE "KL"

(* option tables label -> value of at most n options, labels distinct *)
RECURSIVE OptionTables(_)
OptionTables(n) ==
    IF n = 0 THEN {<<>>}
    ELSE LET prev == OptionTables(n - 1)
             longer == { Append(t, [k |-> l, v |-> IF v = "" THEN "" ELSE ValueOf(l)]) :
                           t \in {p \in prev : Len(p) = n - 1},
                           l \in Labels, v \in {"", "set"} }
         IN  prev \cup
             {t \in longer : \A i \in 1..(Len(t) - 1) : t[i].k # t[Len(t)].k}

(* sequences over S of length at most n *)
RECURSIVE SeqsUpTo(_, _)
SeqsUpTo(S, n) ==
    IF n = 0 THEN {<<>>}
    ELSE LET prev == SeqsUpTo(S, n - 1)
         IN  prev \cup {Append(t, x) : t \in {p \in prev : Len(p) = n - 1}, x \in S}

UserTexts == {<<>>, AP, Lower(AP), <<SP>> \o AP \o <<SP>>, KER}

Td(text) == [th |-> FALSE, text |-> text, a |-> <<>>]
Th(text) == [th |-> TRUE, text |-> text, a |-> <<>>]
TdA(text, anchor) == [th |-> FALSE, text |-> text, a |-> <<anchor>>]

HdrTh == <<Th(<<"Sr", SP, "No">>), Th(<<"Case", SP, "Number">>), Th(<<"Parties">>), Th(<<"View">>)>>
HdrTd == <<Td(<<"Sr", SP, "No">>), Td(<<"Case", SP, "Number">>), Td(<<"Parties">>), Td(<<"View">>)>>
HdrLow == <<Th(<<"Id">>), Th(<<"Petitioner">>)>>
HdrPlain == <<Th(<<"Foo">>), Th(<<"Bar">>)>>

RowFull ==
    <<Td(<<"1">>), Td(<<"CRL.A", SP, "123/2024">>), Td(<<"A", SP, "vs", SP, "B">>),
      TdA(<<>>, [text |-> <<"View">>, href |-> "detail.php?id=1"])>>
RowBlankRef ==
    <<Td(<<"2">>), Td(<<SP>>), Td(<<"C", SP, "vs", SP, "D">>),
      TdA(<<>>, [text |-> <<"VIEW">>, href |-> "detail.php?id=2"])>>
RowOneCell == <<Td(<<"note">>)>>
RowTwoCells == <<Td(<<"3">>), Td(<<SP, "WP", SP, "77/2023">>)>>
RowBlankParties ==
    <<Td(<<"4">>), Td(<<"WP", SP, "9/2022">>), Td(<<>>),
      TdA(<<"see">>, [text |-> <<"Open">>, href |-> None])>>
RowOtherLink ==
    <<Td(<<"5">>), Td(<<"WP", SP, "5/2021">>), Td(<<"E">>),
      TdA(<<>>, [text |-> <<"Open">>, href |-> "detail.php?id=5"])>>

RowKinds == {RowFull, RowBlankRef, RowOneCell, RowTwoCells, RowBlankParties, RowOtherLink}
HeaderKinds == {<<HdrTh>>, <<HdrTd>>, <<>>}

TableGood == <<HdrTh, RowFull>>
TableLow == <<HdrLow, RowOtherLink>>
TablePlain == <<HdrPlain, RowTwoCells>>
TableLink == <<HdrPlain, RowBlankRef>>
TableKinds == {TableGood, TableLow, TablePlain, TableLink, <<>>}

PreInvalid == <<"Invalid", SP, "captcha", SP, "entered">>
PreNoRecord == <<"No", SP, "Record", SP, "Found">>
PreNotFound == <<"RECORD", SP, "NOT", SP, "found">>
PreOther == <<"invalid", SP, "data">>

SimpleBody == [pre |-> <<>>, tables |-> <<<<HdrTh, RowTwoCells>>>>]

(* the response bodies the portal may answer with *)
Bodies(f) ==
    CASE f = "rows" ->
           { [pre |-> p, tables |-> <<h \o rs>>] :
               p \in {<<>>, PreInvalid}, h \in HeaderKinds, rs \in SeqsUpTo(RowKinds, MaxRows) }
      [] f = "tables" ->
           { [pre |-> p, tables |-> ts] :
               p \in {<<>>, PreNoRecord, PreNotFound, PreOther},
               ts \in SeqsUpTo(TableKinds, MaxTables) }
      [] f = "flow" ->
           { [pre |-> <<>>, tables |-> <<TableGood>>],
             [pre |-> PreInvalid, tables |-> <<>>], [pre |-> <<>>, tables |-> <<>>] }
      [] OTHER -> {SimpleBody}

(* the outcomes of a POST: an exception raised by session.post, or a response *)
PostOutcomes(f) ==
    (IF f \in {"state", "bench", "forms"} THEN {}
     ELSE {[kind |-> "raise", status |-> 0, body |-> SimpleBody],
           [kind |-> "resp", status |-> 500, body |-> SimpleBody]})
    \cup {[kind |-> "resp", status |-> 200, body |-> b] : b \in Bodies(f)}

DetailFull ==
    [html |-> "detail-1",
     tables |-> << [class |-> <<"plain">>, rows |-> << <<<<"x">>>> >>],
                   [class |-> <<"TABLE_VAL", "_ros">>,
                    rows |-> << << <<"Filing", SP, "Date">>, <<SP, "01-02-2024">> >>,
                                << <<"Next", SP, "Hearing", SP, "Date">>, <<"12-03-2025">> >>,
                                << <<"Case", SP, "Status">>, <<"Pending">>, <<"x">> >>,
                                << <<"Status">> >> >>] >>,
     anchors |-> << [text |-> <<"Home">>, href |-> "index.php"],
                    [text |-> <<"View", SP, "Judgment">>, href |-> "https://judgments.ecourts.gov.in/j1.pdf"] >>]
DetailSparse ==
    [html |-> "detail-2",
     tables |-> << [class |-> <<"grid">>,
                    rows |-> << << <<"Petitioner">>, <<"A">> >>,
                                << <<"Date", SP, "Filed">>, <<SP>> >>,
                                << <<"Hearing">>, <<"never">> >> >>] >>,
     anchors |-> << [text |-> <<"Judgment">>, href |-> None] >>]
DetailBare == [html |-> "detail-3", tables |-> <<>>,
               anchors |-> << [text |-> <<"Judgment">>, href |-> "j3.pdf"] >>]
DetailEmpty == [html |-> "", tables |-> <<>>, anchors |-> <<>>]

(* the outcomes of the detail-page GET: Nothing is a RequestException *)
DetailOutcomes(f) ==
    IF f = "rows" THEN {Nothing, Some(DetailFull), Some(DetailSparse), Some(DetailBare), Some(DetailEmpty)}
    ELSE {Nothing, Some(DetailFull)}

Opt(text, value) == [text |-> text, value |-> value]

PageFull ==
    [hidden |-> [app_token |-> "tok-2"],
     selects |-> << [name |-> "Court_Code",
                     options |-> <<Opt(<<"Select">>, ""), Opt(<<SP, "Andhra", SP, "Pradesh">>, "AP9"),
                                   Opt(KER, None)>>],
                    [name |-> "bench",
                     options |-> <<Opt(<<"Madurai">>, "MB"), Opt(<<"Principal", SP, "Bench">>, "PB")>>],
                    [name |-> "party_type",
                     options |-> <<Opt(<<"Petitioner">>, "pet")>>],
                    [name |-> "", options |-> <<Opt(<<"x">>, "y")>>] >>,
     action |-> "index_qry.php?action_code=showRecords"]
PageBare == [hidden |-> EmptyDict, selects |-> <<>>, action |-> None]
PageOther ==
    [hidden |-> [app_token |-> "tok-3", case_status |-> "P"],
     selects |-> << [name |-> "state_code", options |-> <<Opt(KER, "KL"), Opt(KER, "KL2")>>] >>,
     action |-> "case_no.php"]

FormPages == {PageFull, PageBare, PageOther}

(* the outcomes of a GET of the form page: Nothing is a RequestException *)
FormOutcomes(f) ==
    IF f = "snapshot" THEN {Nothing} \cup {Some(p) : p \in FormPages}
    ELSE IF f = "forms" THEN {Some(PageBare)}
    ELSE {Nothing, Some(PageFull)}

NoSnapshot == [kind |-> "none", hidden |-> EmptyDict, select_options |-> <<>>, action |-> None]
EmptySnapshot == [kind |-> "empty", hidden |-> EmptyDict, select_options |-> <<>>, action |-> None]

PlainCriteria ==
    [state |-> AP, bench |-> <<"Principal", SP, "Bench">>, search_criteria |-> "case_number",
     cino |-> None, party_name |-> None, case_type |-> "WP", case_number |-> "123",
     case_year |-> "2024", filing_number |-> None, advocate_name |-> None,
     fir_number |-> None, act |-> None]

SelectSnapshot(name, opts) ==
    [kind |-> "snap", hidden |-> [app_token |-> "tok-1"],
     select_options |-> << [k |-> "party_type", v |-> <<[k |-> <<"Petitioner">>, v |-> "pet"]>>],
                           [k |-> name, v |-> opts] >>,
     action |-> None]

(* scraper.py:257-270: the optional values of case_details *)
OptionalNames == {"cino", "party_name", "filing_number", "advocate_name", "fir_number", "act"}

(* criteria with up to MaxFields optional values given by the user *)
OptionalCriteria ==
    { [k \in DOMAIN PlainCriteria |-> IF k \in S THEN "u-" \o k ELSE PlainCriteria[k]] :
        S \in {T \in SUBSET OptionalNames : Cardinality(T) <= MaxOptional} }

(* snapshots whose hidden inputs hold none, some or all of the alias keys *)
AliasSnapshots ==
    { [kind |-> "snap", hidden |-> h, select_options |-> <<>>, action |-> None] :
        h \in { [app_token |-> "tok-1"],
                [app_token |-> "tok-1", cino |-> "s-cino", party |-> "s-party"],
                [cino |-> "s-cino", party_name |-> "s-party_name", party |-> "s-party",
                 filing_no |-> "s-filing_no", advocate |-> "s-advocate",
                 fir_no |-> "s-fir_no", act |-> "s-act"] } }

(* the calls of fetch_ecourts_data the model makes *)
SearchScenarios ==
    { [focus |-> "aliases", case_details |-> cd, captcha_input |-> "x7k2",
       initial_form_data |-> sn] : cd \in OptionalCriteria, sn \in AliasSnapshots }
    \cup
    { [focus |-> "state", case_details |-> [PlainCriteria EXCEPT !.state = u],
       captcha_input |-> "x7k2", initial_form_data |-> SelectSnapshot(n, t)] :
        u \in UserTexts, n \in {"Court_Code", "state_code"}, t \in OptionTables(MaxOpts) }
    \cup
    { [focus |-> "bench", case_details |-> [PlainCriteria EXCEPT !.bench = u],
       captcha_input |-> "x7k2", initial_form_data |-> SelectSnapshot(n, t)] :
        u \in UserTexts, n \in {"Bench_id", "location_code"}, t \in OptionTables(MaxOpts) }
    \cup
    { [focus |-> f, case_details |-> PlainCriteria, captcha_input |-> "x7k2",
       initial_form_data |-> fetch_search_form(PageBare)] : f \in {"rows", "tables"} }
    \cup
    { [focus |-> "snapshot", case_details |-> [PlainCriteria EXCEPT !.state = u],
       captcha_input |-> "x7k2", initial_form_data |-> s] :
        u \in {AP, KER, <<>>},
        s \in {NoSnapshot, EmptySnapshot} \cup {fetch_search_form(p) : p \in FormPages} }

-----------------------------------------------------------------------------
(* fetch_ecourts_data, one action per network round trip *)

(* a request issued and how it ended: status 0 is an exception raised by the *)
(* session (network error, timeout), else the status of the response        *)
Get_(u, status) == [m |-> "GET", url |-> u, data |-> EmptyDict, status |-> status]
Post_(u, data, status) == [m |-> "POST", url |-> u, data |-> data, status |-> status]

Returned(parsed, raw, err) == Some([kind |-> "return", parsed |-> parsed, raw |-> raw, err |-> err])
Raised(what) == Some([kind |-> "raise", parsed |-> Nothing, raw |-> Nothing, err |-> what])

MsgNegative == "Record Not Found or Invalid CAPTCHA."
MsgNoTable == "Could not find the case details table on the page."
MsgNoRows == "No usable rows found in results table."

UsesAction == initial_form_data.kind = "snap" /\ Truthy(initial_form_data.action)

(* scraper.py:89-134 *)
SearchStart ==
    /\ pc = "start"
    /\ IF Get(case_details, "state", <<>>) = NoneT
       THEN /\ result' = Raised("AttributeError")
            /\ pc' = "done"
            /\ UNCHANGED <<state_lc, form_data, select_options, post_url, reqs>>
       ELSE /\ state_lc' = Lower(Get(case_details, "state", <<>>))
            /\ post_url' = search_url
            /\ pc' = "seeded"
            /\ UNCHANGED result
            /\ IF initial_form_data.kind = "snap"
               THEN /\ form_data' = Update(EmptyDict, initial_form_data.hidden)
                    /\ select_options' = initial_form_data.select_options
                    /\ UNCHANGED reqs
               ELSE \E o \in FormOutcomes(focus) :
                    /\ reqs' = Append(reqs, Get_(SEARCH_FORM_URL, IF o = Nothing THEN 0 ELSE 200))
                    /\ form_data' = IF o = Nothing THEN EmptyDict ELSE Update(EmptyDict, o[1].hidden)
                    /\ select_options' = IF o = Nothing THEN <<>> ELSE SelectsDict(o[1].selects, <<>>)
    /\ UNCHANGED <<focus, case_details, captcha_input, initial_form_data, response, dumps>>
    /\ UNCHANGED <<classifyVars, webVars, watchVars>>

(* scraper.py:137-190 *)
SearchRefetch ==
    /\ pc = "seeded"
    /\ UsesAction
    /\ post_url' = UrlJoinForm(initial_form_data.action)
    /\ \E o \in FormOutcomes(focus) :
         /\ reqs' = Append(reqs, Get_(SEARCH_FORM_URL, IF o = Nothing THEN 0 ELSE 200))
         /\ form_data' = IF o = Nothing THEN form_data ELSE RefetchMerge(form_data, o[1], state_lc)
    /\ pc' = "refetched"
    /\ UNCHANGED <<focus, case_details, captcha_input, initial_form_data, state_lc,
                   select_options, response, dumps, result>>
    /\ UNCHANGED <<classifyVars, webVars, watchVars>>

(* scraper.py:192-288 *)
SearchPost ==
    /\ \/ pc = "seeded" /\ ~UsesAction
       \/ pc = "refetched"
    /\ form_data' = BuildPayload(form_data, select_options, case_details, captcha_input)
    /\ \E o \in PostOutcomes(focus) :
         /\ reqs' = Append(reqs, Post_(post_url, form_data', o.status))
         /\ IF o.kind = "raise"
            THEN pc' = "post_failed" /\ UNCHANGED response
            ELSE /\ pc' = "responded"
                 /\ response' = Some([status |-> o.status, body |-> o.body, url |-> post_url])
    /\ UNCHANGED <<focus, case_details, captcha_input, initial_form_data, state_lc,
                   select_options, post_url, dumps, result>>
    /\ UNCHANGED <<classifyVars, webVars, watchVars>>

(* scraper.py:289-291, 457-458 *)
SearchFallbackPost ==
    /\ pc = "post_failed"
    /\ \E o \in PostOutcomes(focus) :
         /\ reqs' = Append(reqs, Post_(search_url, form_data, o.status))
         /\ IF o.kind = "raise"
            THEN /\ pc' = "done"
                 /\ result' = Returned(Nothing, Nothing, "RequestException")
                 /\ UNCHANGED response
            ELSE /\ pc' = "responded"
                 /\ response' = Some([status |-> o.status, body |-> o.body, url |-> search_url])
                 /\ UNCHANGED result
    /\ UNCHANGED <<focus, case_details, captcha_input, initial_form_data, state_lc,
                   form_data, select_options, post_url, dumps>>
    /\ UNCHANGED <<classifyVars, webVars, watchVars>>

ResultsTable == response[1].body.tables[find_results_table(response[1].body)]
ResultRow == ResultsTable[ChosenRow(ResultsTable)]
DetailUrl == UrlJoin(response[1].url, ViewAnchor(ResultRow)[1].href)

(* scraper.py:292-399 *)
SearchClassify ==
    /\ pc = "responded"
    /\ LET body == response[1].body
           raw == Some(body)
       IN  IF response[1].status # 200
           THEN /\ result' = Returned(Nothing, Nothing, "HTTPError")
                /\ pc' = "done" /\ UNCHANGED dumps
           ELSE IF IsNegative(body)
           THEN /\ result' = Returned(Nothing, raw, MsgNegative)
                /\ pc' = "done" /\ UNCHANGED dumps
           ELSE IF find_results_table(body) = 0
           THEN /\ dumps' = dumps + 1
                /\ result' = Returned(Nothing, raw, MsgNoTable)
                /\ pc' = "done"
           ELSE IF ChosenRow(ResultsTable) = 0
           THEN /\ result' = Returned(Nothing, raw, MsgNoRows)
                /\ pc' = "done" /\ UNCHANGED dumps
           ELSE IF ~FollowsDetail(ResultRow)
           THEN /\ result' = Returned(Some(ParseRow(ResultRow, Nothing)), raw, None)
                /\ pc' = "done" /\ UNCHANGED dumps
           ELSE /\ pc' = "detail" /\ UNCHANGED <<result, dumps>>
    /\ UNCHANGED <<focus, case_details, captcha_input, initial_form_data, state_lc,
                   form_data, select_options, post_url, reqs, response>>
    /\ UNCHANGED <<classifyVars, webVars, watchVars>>

(* scraper.py:393-455 *)
SearchDetail ==
    /\ pc = "detail"
    /\ \E o \in DetailOutcomes(focus) :
         /\ reqs' = Append(reqs, Get_(DetailUrl, IF o = Nothing THEN 0 ELSE 200))
         /\ result' = Returned(Some(ParseRow(ResultRow, o)), Some(response[1].body), None)
    /\ pc' = "done"
    /\ UNCHANGED <<focus, case_details, captcha_input, initial_form_data, state_lc,
                   form_data, select_options, post_url, response, dumps>>
    /\ UNCHANGED <<classifyVars, webVars, watchVars>>

SearchIdle ==
    /\ state_lc = <<>>
    /\ form_data = EmptyDict
    /\ select_options = <<>>
    /\ post_url = search_url
    /\ reqs = <<>>
    /\ response = Nothing
    /\ dumps = 0
    /\ result = Nothing

ClassifyIdle == url = <<>> /\ fetched = Nothing /\ document = <<>> /\ entries = Nothing
WebIdle ==
    /\ form = EmptyDict /\ session = EmptyDict /\ stored_by = EmptyDict /\ queries = <<>> /\ answer = ""
    /\ served = 0
WatchIdle ==
    /\ watches = <<>> /\ notifications = <<>> /\ extract_text = TRUE
    /\ pass = [no |-> 0, todo |-> <<>>, log |-> <<>>, running |-> FALSE] /\ passes = 0

InitSearch ==
    /\ \E sc \in SearchScenarios :
         /\ focus = sc.focus
         /\ case_details = sc.case_details
         /\ captcha_input = sc.captcha_input
         /\ initial_form_data = sc.initial_form_data
    /\ pc = "start"
    /\ SearchIdle
    /\ ClassifyIdle
    /\ WebIdle
    /\ WatchIdle

NextSearch ==
    \/ SearchStart
    \/ SearchRefetch
    \/ SearchPost
    \/ SearchFallbackPost
    \/ SearchClassify
    \/ SearchDetail

SpecSearch == InitSearch /\ [][NextSearch]_vars

-----------------------------------------------------------------------------
(* claims about fetch_ecourts_data *)

Posts == SelectSeq(reqs, LAMBDA r : r.m = "POST")
DetailGets == SelectSeq(reqs, LAMBDA r : r.m = "GET" /\ r.url # SEARCH_FORM_URL)
FormGets == SelectSeq(reqs, LAMBDA r : r.m = "GET" /\ r.url = SEARCH_FORM_URL)
Done == pc = "done" /\ result # Nothing
Ok2xx == response # Nothing /\ response[1].status = 200

(* the three phrases of the claim, matched case-insensitively in the body *)
C1_Phrases ==
    { <<"invalid", SP, "captcha">>, <<"record", SP, "not", SP, "found">>,
      <<"no", SP, "record", SP, "found">> }
C1_BodyIsNegative ==
    /\ Ok2xx
    /\ LET lowered == Lower(RawHtml(response[1].body))
       IN  \E p \in C1_Phrases : Contains(lowered, p)

(* C1: a 2xx POST response whose body contains, case-insensitively, "invalid *)
(* captcha", "record not found" or "no record found" makes the call return   *)
(* (absent, the body, "Record Not Found or Invalid CAPTCHA."); no dump is    *)
(* written and no detail page is requested, whatever tables the body holds.  *)
C1_NegativeBeforeParsing ==
    C1_BodyIsNegative =>
        /\ pc \in {"responded", "done"}
        /\ dumps = 0
        /\ DetailGets = <<>>
        /\ pc = "done" =>
             result = Returned(Nothing, Some(response[1].body), MsgNegative)

(* witness: a negative body that also holds a qualifying table with a row  *)
(* whose view link could be followed has been answered                     *)
C1_Witness ==
    /\ Done
    /\ C1_BodyIsNegative
    /\ find_results_table(response[1].body) # 0
    /\ ChosenRow(ResultsTable) # 0
    /\ FollowsDetail(ResultRow)
    /\ result[1].err = MsgNegative

TextFields == {"case_ref", "parties", "filing_date", "next_hearing_date", "case_status"}

(* C2 (as claimed): every ParsedCase returned with error none has its five *)
(* textual fields non-empty: real text or "Not Found".                     *)
C2_SentinelInvariant ==
    (Done /\ result[1].kind = "return" /\ result[1].parsed # Nothing /\ result[1].err = None) =>
        /\ {"case_ref", "parties", "filing_date", "next_hearing_date", "case_status",
            "judgment_link", "detail_page_html"} \subseteq DOMAIN result[1].parsed[1]
        /\ \A f \in TextFields :
             result[1].parsed[1][f] # <<>> /\ result[1].parsed[1][f] # NoneT

(* the select of the snapshot the code resolves a user value against *)
C4_Select(IsName(_)) ==
    LET i == FirstIdx(select_options, IsName) IN IF i = 0 THEN Nothing ELSE Some(select_options[i])

(* C4 for one select: when a label equals the user value case-insensitively, *)
(* every payload posted carries that label's option value under the select's *)
(* name, whatever the order of the options and whatever that value is.       *)
C4_ExactWins(IsName(_), user) ==
    \A s \in {C4_Select(IsName)} \ {Nothing} :
      \A i \in DOMAIN s[1].v :
        (user # <<>> /\ user # NoneT /\ Lower(s[1].v[i].k) = Lower(user)) =>
          \A r \in DOMAIN Posts :
            /\ s[1].k \in DOMAIN Posts[r].data
            /\ Posts[r].data[s[1].k] = s[1].v[i].v

(* C4 (as claimed): exact case-insensitive label equality takes precedence *)
(* over containment, for the jurisdiction select and for the bench select. *)
C4_LabelPrecedence ==
    /\ C4_ExactWins(IsJurisdictionName, Get(case_details, "state", NoneT))
    /\ C4_ExactWins(IsBenchName, Get(case_details, "bench", NoneT))

FailedTransport(r) == r.status = 0 \/ r.status \notin 200..299

(* C9 (as claimed): a transport failure of the first POST (exception or     *)
(* non-2xx) is followed by exactly one further POST, to the default search  *)
(* endpoint; never more than two POSTs; a failing second POST gives         *)
(* (absent, absent, message); no GET is issued twice.                       *)
C9_RetryOnce ==
    /\ Len(Posts) <= 2
    /\ (Done /\ result[1].kind = "return" /\ Posts # <<>> /\ FailedTransport(Posts[1])) =>
          /\ Len(Posts) = 2
          /\ Posts[2].url = search_url
          /\ FailedTransport(Posts[2]) =>
               (result[1].parsed = Nothing /\ result[1].raw = Nothing /\ result[1].err # None)
    /\ \A i, j \in DOMAIN reqs :
          (i # j /\ reqs[i].m = "GET") => reqs[i].url # reqs[j].url \/ reqs[j].m # "GET"

-----------------------------------------------------------------------------
(* app.py: the web routes of one user *)
(* A submitted form maps every field name to its value, None when the form *)
(* does not carry the field (request.form.get gives None).  The session is *)
(* a dict over case_details, scraper_cookies and initial_form_data.        *)

MaxFields == 2      \* search-mode fields a submitted form carries
MaxRequests == 3    \* web requests of one behaviour

(* app.py:192 *)
ModeOrder ==
    <<"cino", "party_name", "case_number", "filing_number", "advocate_name",
      "fir_number", "act", "case_type_only">>
ModeFields == {ModeOrder[i] : i \in DOMAIN ModeOrder}

(* x or y *)
Or(x, y) == IF Truthy(x) THEN x ELSE y

(* app.py:191-195 *)
SearchCriteria(f) ==
    LET Present(c) == f[c] # None
        i == FirstIdx(ModeOrder, Present)
    IN  IF i = 0 THEN None ELSE ModeOrder[i]

(* app.py:198-211 *)
CaseDetails(f) ==
    [state |-> f["state"], bench |-> f["bench"], search_criteria |-> SearchCriteria(f),
     cino |-> f["cino"], party_name |-> f["party_name"],
     case_type |-> Or(f["case_type"], f["case_type_only"]),
     case_number |-> f["case_number"], case_year |-> f["case_year"],
     filing_number |-> f["filing_number"], advocate_name |-> f["advocate_name"],
     fir_number |-> f["fir_number"], act |-> f["act"]]

BlankForm ==
    [state |-> AP, bench |-> <<"Principal", SP, "Bench">>, case_type |-> None, case_year |-> None,
     captcha |-> None, route |-> "/fetch",
     cino |-> None, party_name |-> None, case_number |-> None, filing_number |-> None,
     advocate_name |-> None, fir_number |-> None, act |-> None, case_type_only |-> None]

(* forms carrying the mode fields of S, each blank or filled *)
RECURSIVE FormsOver(_)
FormsOver(S) ==
    IF S = {} THEN {BlankForm}
    ELSE LET k == CHOOSE x \in S : TRUE
         IN  UNION { {[g EXCEPT ![k] = ""], [g EXCEPT ![k] = "v-" \o k]} : g \in FormsOver(S \ {k}) }

(* the forms a user may submit to /fetch *)
FetchForms(f) ==
    IF f = "forms"
    THEN UNION {FormsOver(S) : S \in {T \in SUBSET ModeFields : Cardinality(T) <= MaxFields}}
    ELSE { [BlankForm EXCEPT !.cino = "v-cino"],
           [BlankForm EXCEPT !.case_type = "WP", !.case_number = "123", !.case_year = "2024"],
           [BlankForm EXCEPT !.state = NoneT, !.bench = NoneT, !.party_name = "v-party_name"] }

CaptchaInputs == {None, "", "x7k2"}

MsgExpired == "Session expired or invalid data. Please start over."
MsgCaptchaError == "Error fetching CAPTCHA"
MsgServerError == "500 Internal Server Error"

NoSession == EmptyDict

(* app.py:188-237 fetch_captcha; the cookie jar of the request is named by *)
(* the number of the request                                               *)
WebFetch ==
    /\ pc = "idle"
    /\ served < MaxRequests
    /\ focus = "forms" => served = 0
    /\ \E f \in FetchForms(focus), fo \in FormOutcomes(focus), captcha_ok \in BOOLEAN :
         /\ form' = f
         /\ IF ~captcha_ok
            THEN /\ session' = Put(session, "case_details", CaseDetails(f))
                 /\ stored_by' = Put(stored_by, "case_details", served + 1)
                 /\ answer' = MsgCaptchaError
            ELSE /\ session' =
                      Put(Put(Put(session, "case_details", CaseDetails(f)),
                              "scraper_cookies", served + 1),
                          "initial_form_data",
                          IF fo = Nothing THEN EmptySnapshot ELSE fetch_search_form(fo[1]))
                 /\ stored_by' = Put(Put(Put(stored_by, "case_details", served + 1),
                                         "scraper_cookies", served + 1),
                                     "initial_form_data", served + 1)
                 /\ answer' = "solve_captcha.html"
    /\ served' = served + 1
    /\ UNCHANGED <<pc, focus, queries, searchVars, classifyVars, watchVars>>

(* app.py:51-96 api_highcourt_options *)
WebHighcourtOptions ==
    /\ pc = "idle"
    /\ served < MaxRequests
    /\ focus = "flow"
    /\ IF "initial_form_data" \in DOMAIN session /\ session["initial_form_data"].kind = "snap"
       THEN UNCHANGED <<session, stored_by>>
       ELSE /\ \E fo \in FormOutcomes(focus) :
                 session' = Put(session, "initial_form_data",
                                IF fo = Nothing THEN EmptySnapshot ELSE fetch_search_form(fo[1]))
            /\ stored_by' = Put(stored_by, "initial_form_data", served + 1)
    /\ answer' = "options"
    /\ form' = [BlankForm EXCEPT !.route = "/api/highcourt_options"]
    /\ served' = served + 1
    /\ UNCHANGED <<pc, focus, queries, searchVars, classifyVars, watchVars>>

(* mutant: only a missing CAPTCHA field is refused, an empty one passes *)
WebSubmitCaptcha_EmptyPasses ==
    /\ pc = "idle"
    /\ served < MaxRequests
    /\ \E c \in CaptchaInputs :
         /\ form' = [BlankForm EXCEPT !.captcha = c, !.route = "/submit_captcha"]
         /\ IF c = None \/ "case_details" \notin DOMAIN session
            THEN /\ answer' = MsgExpired
                 /\ pc' = "idle"
                 /\ UNCHANGED searchVars
            ELSE /\ answer' = ""
                 /\ pc' = "start"
                 /\ case_details' = session["case_details"]
                 /\ captcha_input' = c
                 /\ initial_form_data' = Get(session, "initial_form_data", NoSnapshot)
                 /\ state_lc' = <<>> /\ form_data' = EmptyDict /\ select_options' = <<>>
                 /\ post_url' = search_url /\ reqs' = <<>> /\ response' = Nothing
                 /\ dumps' = dumps /\ result' = Nothing
    /\ served' = served + 1
    /\ UNCHANGED <<focus, session, stored_by, queries, classifyVars, watchVars>>

(* app.py:239-258 submit_captcha up to the call of fetch_ecourts_data *)
WebSubmitCaptcha ==
    /\ pc = "idle"
    /\ served < MaxRequests
    /\ \E c \in CaptchaInputs :
         /\ form' = [BlankForm EXCEPT !.captcha = c, !.route = "/submit_captcha"]
         /\ IF ~Truthy(c) \/ "case_details" \notin DOMAIN session
            THEN /\ answer' = MsgExpired
                 /\ pc' = "idle"
                 /\ UNCHANGED searchVars
            ELSE /\ answer' = ""
                 /\ pc' = "start"
                 /\ case_details' = session["case_details"]
                 /\ captcha_input' = c
                 /\ initial_form_data' = Get(session, "initial_form_data", NoSnapshot)
                 /\ state_lc' = <<>> /\ form_data' = EmptyDict /\ select_options' = <<>>
                 /\ post_url' = search_url /\ reqs' = <<>> /\ response' = Nothing
                 /\ dumps' = dumps /\ result' = Nothing
    /\ served' = served + 1
    /\ UNCHANGED <<focus, session, stored_by, queries, classifyVars, watchVars>>

(* app.py:99-105: the NOT NULL columns of CaseQuery *)
CaseQueryRow(cd, raw) ==
    IF cd["search_criteria"] = "cino"
    THEN [case_type |-> "CNR", case_number |-> cd["cino"], case_year |-> "", raw_response |-> raw]
    ELSE [case_type |-> Or(cd["case_type"], Get(cd, "case_type_only", None)),
          case_number |-> cd["case_number"], case_year |-> cd["case_year"],
          raw_response |-> raw]

RowAccepted(q) == q.case_type # None /\ q.case_number # None /\ q.case_year # None

(* app.py:253-281 submit_captcha after fetch_ecourts_data has ended *)
WebStore ==
    /\ pc = "done"
    /\ focus \in {"forms", "flow"}
    /\ result # Nothing
    /\ LET r == result[1]
           q == CaseQueryRow(case_details, r.raw)
       IN  IF r.kind = "raise" \/ ~RowAccepted(q)
           THEN answer' = MsgServerError /\ UNCHANGED queries
           ELSE /\ queries' = Append(queries, q)
                /\ answer' = IF r.err # None \/ r.parsed = Nothing
                             THEN "An error occurred" ELSE "results.html"
    /\ pc' = "idle"
    /\ case_details' = PlainCriteria /\ captcha_input' = "" /\ initial_form_data' = NoSnapshot
    /\ state_lc' = <<>> /\ form_data' = EmptyDict /\ select_options' = <<>>
    /\ post_url' = search_url /\ reqs' = <<>> /\ response' = Nothing /\ result' = Nothing
    /\ UNCHANGED <<focus, form, session, stored_by, served, dumps, classifyVars, watchVars>>

InitWeb ==
    /\ pc = "idle"
    /\ focus \in {"forms", "flow"}
    /\ case_details = PlainCriteria
    /\ captcha_input = ""
    /\ initial_form_data = NoSnapshot
    /\ SearchIdle
    /\ ClassifyIdle
    /\ form = BlankForm /\ session = NoSession /\ stored_by = EmptyDict /\ queries = <<>> /\ answer = ""
    /\ served = 0
    /\ WatchIdle

NextWeb ==
    \/ WebFetch
    \/ WebHighcourtOptions
    \/ WebSubmitCaptcha
    \/ SearchStart
    \/ SearchRefetch
    \/ SearchPost
    \/ SearchFallbackPost
    \/ SearchClassify
    \/ SearchDetail
    \/ WebStore

SpecWeb == InitWeb /\ [][NextWeb]_vars

-----------------------------------------------------------------------------
(* causelist_scraper.py:37-54 fetch_causelist_content *)
(* A URL is a Text: its chunks are the host and path pieces, an extension,  *)
(* and "?" or "#" followed by the query or fragment pieces.                 *)

(* causelist_scraper.py:46-47 *)
ClassifyContent(content_type, u) ==
    LET ct == Lower(IF content_type = NoneT THEN <<>> ELSE content_type)
    IN  IF Contains(ct, <<"application/pdf">>) \/ EndsWith(Lower(u), <<".pdf">>)
        THEN "pdf" ELSE "html"

UrlStems == {<<"https://hc.example/", "list">>, <<"https://hc.example/", "cl", "/", "LIST">>}
UrlExts == {<<>>, <<".pdf">>, <<".PDF">>, <<".html">>, <<".pdf", ".bak">>}
UrlTails == {<<>>, <<"?", "date=1">>, <<"?", "f=", "a", ".pdf">>, <<"#", "p1">>}
Urls == {s \o e \o t : s \in UrlStems, e \in UrlExts, t \in UrlTails}

ContentTypes ==
    {NoneT, <<"application/pdf">>, <<"Application/PDF">>,
     <<"application/pdf", ";", "charset=binary">>, <<"text/html">>}

(* the outcomes of the GET: a raised exception, a non-2xx status, a 2xx *)
(* response with its Content-Type header                               *)
CauseOutcomes ==
    {[status |-> 0, ct |-> NoneT], [status |-> 404, ct |-> <<"text/html">>]}
    \cup {[status |-> 200, ct |-> c] : c \in ContentTypes}

(* causelist_scraper.py:37-54 *)
FetchCauselistContent ==
    /\ pc = "classify"
    /\ \E o \in CauseOutcomes :
         fetched' = IF o.status = 200
                    THEN Some([raised |-> FALSE, type |-> ClassifyContent(o.ct, url), ct |-> o.ct])
                    ELSE Some([raised |-> TRUE, type |-> "", ct |-> o.ct])
    /\ pc' = "done"
    /\ UNCHANGED <<focus, url, document, entries, searchVars, webVars, watchVars>>

InitClassify ==
    /\ pc = "classify"
    /\ focus = "classify"
    /\ url \in Urls
    /\ fetched = Nothing
    /\ document = <<>>
    /\ entries = Nothing
    /\ case_details = PlainCriteria
    /\ captcha_input = ""
    /\ initial_form_data = NoSnapshot
    /\ SearchIdle
    /\ WebIdle
    /\ WatchIdle

NextClassify == FetchCauselistContent

SpecClassify == InitClassify /\ [][NextClassify]_vars

(* the path component of a URL: what precedes the first "?" or "#" *)
C5_Path(u) ==
    LET IsCut(c) == c \in {"?", "#"}
        i == FirstIdx(u, IsCut)
    IN  IF i = 0 THEN u ELSE SubSeq(u, 1, i - 1)

(* C5 (as claimed): a 2xx response is 'pdf' exactly when its Content-Type  *)
(* contains "application/pdf" (case-insensitive) or the path component of  *)
(* the URL ends in ".pdf" (case-insensitive), and 'html' otherwise.        *)
C5_PdfIffTypeOrPath ==
    (fetched # Nothing /\ ~fetched[1].raised) =>
        LET byType == fetched[1].ct # NoneT /\ Contains(Lower(fetched[1].ct), <<"application/pdf">>)
            byPath == C5_Path(url) # <<>> /\ LowerTok(C5_Path(url)[Len(C5_Path(url))]) = ".pdf"
        IN  /\ fetched[1].type \in {"pdf", "html"}
            /\ fetched[1].type = "pdf" <=> (byType \/ byPath)

-----------------------------------------------------------------------------
(* claims about the web routes *)

(* C3 (as claimed): after /fetch, the search mode stored in the session is *)
(* the first field, in the fixed order, whose submitted value is non-empty *)
(* (a present but empty field is not selected ahead of it).                *)
C3_FirstNonEmptyMode ==
    (form["route"] = "/fetch" /\ "case_details" \in DOMAIN session
       /\ \E i \in DOMAIN ModeOrder : Truthy(form[ModeOrder[i]])) =>
        \E i \in DOMAIN ModeOrder :
            /\ Truthy(form[ModeOrder[i]])
            /\ \A j \in 1..(i - 1) : ~Truthy(form[ModeOrder[j]])
            /\ session["case_details"]["search_criteria"] = ModeOrder[i]

(* a /submit_captcha request arriving without case_details in the session *)
(* or with an empty CAPTCHA text                                          *)
C10_Refused ==
    /\ served' = served + 1
    /\ form'["route"] = "/submit_captcha"
    /\ ~Truthy(form'["captcha"]) \/ "case_details" \notin DOMAIN session

(* C10: such a request answers "Session expired or invalid data. Please   *)
(* start over." and has no other effect: the search is not started (no     *)
(* request to the portal), no CaseQuery is stored, the session is kept.    *)
C10_RefusedHasNoEffect ==
    [][C10_Refused =>
         /\ answer' = MsgExpired
         /\ pc' = "idle"
         /\ UNCHANGED <<session, queries, reqs, dumps, result>>]_vars

(* witness: an empty CAPTCHA was refused although the session held criteria *)
C10_Witness ==
    /\ answer = MsgExpired
    /\ form["route"] = "/submit_captcha"
    /\ form["captcha"] = ""
    /\ "case_details" \in DOMAIN session

-----------------------------------------------------------------------------
(* causelist_scraper.py: parsing a cause-list *)
(* A payload is what one response carries, seen the three ways the code    *)
(* looks at it: `tables` is the markup BeautifulSoup finds in it, `text`   *)
(* the lines pdfminer extracts from it, `decoded` the lines of             *)
(* bytes.decode('utf-8', errors='replace'); `extractable` is FALSE when    *)
(* pdfminer raises on the bytes.                                           *)

(* causelist_scraper.py:114-117 *)
causelist_keywords ==
    { <<"case", SP, "type">>, <<"case", SP, "number">>, <<"case", SP, "no">>,
      <<"case", SP, "year">>, <<"sr", SP, "no">>, <<"petitioner">>, <<"respondent">>,
      <<"party">>, <<"view">>, <<"hearing">>, <<"bench">> }

(* `k in text` for a keyword: "case no" is also found inside "case number" *)
KeywordIn(text, k) ==
    \/ Contains(text, k)
    \/ k = <<"case", SP, "no">> /\ Contains(text, <<"case", SP, "number">>)

(* causelist_scraper.py:119-131 *)
table_score(tbl) ==
    LET header_text == HeaderText(tbl)
    IN  Cardinality({k \in causelist_keywords : KeywordIn(header_text, k)})

(* table.get_text(separator=' ').lower() *)
TableText(tbl) ==
    LET cells == Flatten(tbl)
    IN  Lower(JoinSp([i \in DOMAIN cells |-> CellRaw(cells[i])]))

(* causelist_scraper.py:142-147 *)
MentionsCase(tbl) ==
    \/ Contains(TableText(tbl), <<"view">>)
    \/ KeywordIn(TableText(tbl), <<"case", SP, "no">>)

(* mutant: without a scoring table the first table is taken *)
BestTable_FirstTable(tables) ==
    LET scored == {i \in DOMAIN tables : table_score(tables[i]) > 0}
    IN  IF scored # {} THEN CHOOSE i \in scored : \A j \in scored : i <= j
        ELSE IF tables = <<>> THEN 0 ELSE 1

(* causelist_scraper.py:133-150: index of the candidate table, 0 when none *)
BestTable(tables) ==
    LET s == [i \in DOMAIN tables |-> table_score(tables[i])]
        Beats(i) == /\ s[i] > 0
                    /\ \A j \in DOMAIN tables : s[j] < s[i] \/ (s[j] = s[i] /\ j >= i)
        best == {i \in DOMAIN tables : Beats(i)}
    IN  IF best # {} THEN CHOOSE i \in best : TRUE
        ELSE FirstIdx(tables, MentionsCase)

(* \b\d{1,2}[\-/]\d{1,2}[\-/]\d{2,4}\b *)
DateToks == {"12-03-2025", "01/02/24"}
FirstDate(text) ==
    LET IsDate(c) == c \in DateToks
        i == FirstIdx(text, IsDate)
    IN  IF i = 0 THEN <<>> ELSE <<text[i]>>

(* causelist_scraper.py:154-201: the entry of one row; bench and            *)
(* raw_row_html are not carried                                             *)
CauseEntry(row) ==
    LET cols == TdCells(row)
        texts == [i \in DOMAIN cols |-> CellText(cols[i])]
    IN  [case_ref |-> IF Len(texts) >= 2 THEN texts[2] ELSE texts[1],
         parties |-> IF Len(texts) >= 3 THEN texts[3] ELSE <<>>,
         hearing_date |-> FirstDate(Lower(JoinSp(texts)))]

(* causelist_scraper.py:99-203 *)
parse_causelist_html(tables) ==
    LET c == BestTable(tables)
        Data(row) == ~RowHasTh(row) /\ TdCells(row) # <<>>
        rows == IF c = 0 THEN <<>> ELSE SelectSeq(tables[c], Data)
    IN  [i \in DOMAIN rows |-> CauseEntry(rows[i])]

(* causelist_scraper.py:80: (cnr|case\s+no\.?|case\s+number|no\.|\b\d{1,5}\/\d{2,4}\b) *)
CaseLike(line) ==
    \/ \E i \in DOMAIN line :
         LowerTok(line[i]) \in {"cnr", "no.", "123/2024", "77/2023", "01/02/24"}
    \/ KeywordIn(Lower(line), <<"case", SP, "no">>)

(* causelist_scraper.py:57-96: raised is the RuntimeError of line 64 *)
parse_causelist_pdf_bytes(payload, capability) ==
    IF ~capability THEN [raised |-> TRUE, entries |-> <<>>]
    ELSE LET text == IF payload.extractable THEN payload.text ELSE payload.decoded
             NonBlank(l) == Strip(l) # <<>>
             kept == SelectSeq(text, NonBlank)
             lines == SelectSeq([i \in DOMAIN kept |-> Strip(kept[i])], CaseLike)
         IN  [raised |-> FALSE,
              entries |-> [i \in DOMAIN lines |->
                             [case_ref |-> lines[i], parties |-> <<>>,
                              hearing_date |-> FirstDate(lines[i])]]]

-----------------------------------------------------------------------------
(* app.py:133-163 check_watches *)

MaxWatches == 2     \* Watch rows
MaxPasses == 2      \* runs of check_watches

UrlHtml == <<"https://hc.example/", "list", ".html">>
UrlPdf == <<"https://hc.example/", "list", ".pdf">>

WatchKinds ==
    { [monitor_url |-> UrlHtml, case_identifier |-> <<"123/2024">>, active |-> TRUE],
      [monitor_url |-> UrlPdf, case_identifier |-> <<"CASE", SP, "NO">>, active |-> TRUE],
      [monitor_url |-> UrlHtml, case_identifier |-> <<"a", SP, "VS", SP, "b">>, active |-> FALSE] }

(* the Watch tables: rows of distinct kinds, id = position, last_notified  *)
(* 0 for NULL and otherwise the pass that set it                          *)
WatchTables ==
    { [i \in DOMAIN ks |-> [id |-> i, monitor_url |-> ks[i].monitor_url,
                            case_identifier |-> ks[i].case_identifier,
                            active |-> ks[i].active, last_notified |-> 0]] :
        ks \in {q \in SeqsUpTo(WatchKinds, MaxWatches) :
                  \A i, j \in DOMAIN q : i # j => q[i] # q[j]} }

CauseHeader == <<Th(<<"Sr", SP, "No">>), Th(<<"Case", SP, "No">>), Th(<<"Parties">>), Th(<<"Hearing", SP, "Date">>)>>

(* an HTML cause-list with two rows of the same case number *)
HtmlList ==
    [tables |-> << <<HdrPlain, RowOneCell>>,
                   << CauseHeader,
                      <<Td(<<"1">>), Td(<<"CRL.A", SP, "123/2024">>), Td(<<"A", SP, "vs", SP, "B">>), Td(<<"12-03-2025">>)>>,
                      <<Td(<<"2">>), Td(<<"WP", SP, "123/2024">>), Td(<<"C", SP, "vs", SP, "D">>)>> >> >>,
     text |-> <<>>, extractable |-> FALSE,
     decoded |-> << <<"Sr", SP, "No">>, <<"Case", SP, "No">>, <<"CRL.A", SP, "123/2024">> >>]
HtmlOther ==
    [tables |-> << << CauseHeader, <<Td(<<"1">>), Td(<<"WP", SP, "77/2023">>)>> >> >>,
     text |-> <<>>, extractable |-> FALSE, decoded |-> << <<"WP", SP, "77/2023">> >>]
PdfList ==
    [tables |-> <<>>,
     text |-> << <<"Notice">>, <<SP>>, <<SP, "Case", SP, "No", SP, "123/2024", SP, "01/02/24">>,
                 <<"CNR", SP, "X1">>, <<"Case", SP, "Number", SP, "9">> >>,
     extractable |-> TRUE, decoded |-> << <<"%PDF">> >>]

(* the outcomes of the GET of a monitor URL: Nothing when it raises or the *)
(* status is not 2xx                                                       *)
WatchFetches ==
    { Nothing,
      Some([ct |-> <<"text/html">>, payload |-> HtmlList]),
      Some([ct |-> <<"text/html">>, payload |-> HtmlOther]),
      Some([ct |-> <<"application/pdf">>, payload |-> PdfList]),
      Some([ct |-> NoneT, payload |-> PdfList]) }

(* app.py:140-148: the entries a fetched payload is parsed into *)
WatchParsed(type, payload, capability) ==
    IF type = "html" THEN parse_causelist_html(payload.tables)
    ELSE LET r == parse_causelist_pdf_bytes(payload, capability)
         IN  IF r.raised THEN <<>> ELSE r.entries

(* app.py:152-153 *)
Hay(entry) == Lower(entry.case_ref \o <<SP>> \o entry.parties)
Matching(parsed, identifier) ==
    SelectSeq(parsed, LAMBDA e : Contains(Hay(e), Lower(identifier)))

(* mutant: the scan goes on after a match *)
Notified_NoBreak(parsed, identifier) == Matching(parsed, identifier)

(* app.py:151-161: the entries notified of, the scan breaks at the first *)
Notified(parsed, identifier) ==
    LET hits == Matching(parsed, identifier)
    IN  IF hits = <<>> THEN <<>> ELSE <<hits[1]>>

(* mutant: a failed watch ends the pass *)
Remaining_AbortOnFailure(todo, failed) == IF failed THEN <<>> ELSE Tail(todo)

(* app.py:137,162-163: the watches still to evaluate after one iteration *)
Remaining(todo, failed) == Tail(todo)

(* mutant: the pass takes every watch *)
ActiveWatches_All(ws) == ws

(* app.py:136: Watch.query.filter_by(active=True).all() *)
ActiveWatches(ws) == SelectSeq(ws, LAMBDA w : w.active)

(* app.py:136 *)
CheckWatchesStart ==
    /\ pc = "watching"
    /\ ~pass.running
    /\ passes < MaxPasses
    /\ pass' = [no |-> passes + 1,
                todo |-> LET act == ActiveWatches(watches)
                         IN  [i \in DOMAIN act |-> act[i].id],
                log |-> <<>>, running |-> TRUE]
    /\ UNCHANGED <<pc, focus, watches, notifications, extract_text, passes,
                   searchVars, classifyVars, webVars>>

(* app.py:137-163: one iteration of the loop; the commit of line 159 may   *)
(* raise, and then neither the Notification nor last_notified is stored    *)
CheckWatchesWatch ==
    /\ pc = "watching"
    /\ pass.running
    /\ pass.todo # <<>>
    /\ \E fo \in WatchFetches, commit_ok \in BOOLEAN :
         LET w == watches[Head(pass.todo)]
             got == fo # Nothing
             type == IF got THEN ClassifyContent(fo[1].ct, w.monitor_url) ELSE ""
             parsed == IF got THEN WatchParsed(type, fo[1].payload, extract_text) ELSE <<>>
             notes == Notified(parsed, w.case_identifier)
             stored == notes # <<>> /\ commit_ok
             failed == ~got \/ (notes # <<>> /\ ~commit_ok)
         IN  /\ notes = <<>> => commit_ok
             /\ notifications' =
                  IF stored
                  THEN notifications \o
                       [i \in DOMAIN notes |->
                          [watch_id |-> w.id, timestamp |-> pass.no,
                           matched_text |-> notes[i], cause_url |-> w.monitor_url]]
                  ELSE notifications
             /\ watches' = IF stored
                           THEN [watches EXCEPT ![w.id].last_notified = pass.no]
                           ELSE watches
             /\ pass' = [pass EXCEPT
                           !.todo = Remaining(pass.todo, failed),
                           !.log = @ \o <<[watch_id |-> w.id, fetched |-> got, type |-> type,
                                           parsed |-> parsed, failed |-> failed]>>]
    /\ UNCHANGED <<pc, focus, extract_text, passes, searchVars, classifyVars, webVars>>

(* app.py:133-163: check_watches returns *)
CheckWatchesReturn ==
    /\ pc = "watching"
    /\ pass.running
    /\ pass.todo = <<>>
    /\ pass' = [pass EXCEPT !.running = FALSE]
    /\ passes' = passes + 1
    /\ UNCHANGED <<pc, focus, watches, notifications, extract_text,
                   searchVars, classifyVars, webVars>>

InitWatch ==
    /\ pc = "watching"
    /\ focus = "watch"
    /\ watches \in WatchTables
    /\ notifications = <<>>
    /\ extract_text \in BOOLEAN
    /\ pass = [no |-> 0, todo |-> <<>>, log |-> <<>>, running |-> FALSE]
    /\ passes = 0
    /\ case_details = PlainCriteria
    /\ captcha_input = ""
    /\ initial_form_data = NoSnapshot
    /\ SearchIdle
    /\ ClassifyIdle
    /\ WebIdle

NextWatch ==
    \/ CheckWatchesStart
    \/ CheckWatchesWatch
    \/ CheckWatchesReturn

SpecWatch == InitWatch /\ [][NextWatch]_vars

-----------------------------------------------------------------------------
(* claims about check_watches *)

(* the Notifications of a watch created in a pass *)
NotesOf(id, no) ==
    SelectSeq(notifications, LAMBDA n : n.watch_id = id /\ n.timestamp = no)

(* an evaluated watch whose parsed entries hold a match *)
HasMatch(e) ==
    \E i \in DOMAIN e.parsed :
        Contains(Lower(e.parsed[i].case_ref \o <<SP>> \o e.parsed[i].parties),
                 Lower(watches[e.watch_id].case_identifier))

C8_CapabilityMissingIsFatal ==
    \A k \in DOMAIN pass.log :
        (pass.log[k].fetched /\ pass.log[k].type = "pdf" /\ ~extract_text) =>
            pass.log[k].failed

-----------------------------------------------------------------------------
(* causelist_scraper.py:99-203 parse_causelist_html applied to a document *)

CauseHeaderTd == <<Td(<<"Sr", SP, "No">>), Td(<<"Case", SP, "No">>), Td(<<"Parties">>), Td(<<"Hearing", SP, "Date">>)>>

CauseRowFull == <<Td(<<"1">>), Td(<<SP, "CRL.A", SP, "123/2024">>), Td(<<"A", SP, "vs", SP, "B">>), Td(<<"12-03-2025">>)>>
CauseRowThree == <<Td(<<"01/02/24">>), Td(<<"WP", SP, "123/2024">>), Td(<<"C", SP, "vs", SP, "D", SP>>)>>
CauseRowBlank == <<Td(<<>>), Td(<<SP>>), Td(<<>>)>>
CauseRowMention == <<Td(<<"x">>), Td(<<"Case", SP, "Number", SP, "9">>)>>

CauseRowKinds == {CauseRowFull, CauseRowThree, CauseRowBlank, RowTwoCells, RowOneCell}
CauseHeaderKinds == {<<CauseHeader>>, <<CauseHeaderTd>>, <<HdrPlain>>, <<HdrLow>>, <<>>}
CauseTableKinds ==
    { <<>>, <<HdrPlain, RowOneCell>>, <<HdrPlain, RowBlankRef>>, <<HdrPlain, CauseRowMention>>,
      <<HdrLow, RowTwoCells>>, <<CauseHeader, CauseRowFull>>, <<<<>>, CauseRowBlank>> }

(* the documents handed to the parser: one table of a header and up to      *)
(* MaxRows rows, or up to MaxTables tables                                  *)
CauseDocs ==
    { << h \o rs >> : h \in CauseHeaderKinds, rs \in SeqsUpTo(CauseRowKinds, MaxRows) }
    \cup SeqsUpTo(CauseTableKinds, MaxTables)

ParseCauselistHtml ==
    /\ pc = "parse"
    /\ entries' = Some(parse_causelist_html(document))
    /\ pc' = "done"
    /\ UNCHANGED <<focus, url, fetched, document, searchVars, webVars, watchVars>>

InitParse ==
    /\ pc = "parse"
    /\ focus = "parse"
    /\ document \in CauseDocs
    /\ entries = Nothing
    /\ url = <<>>
    /\ fetched = Nothing
    /\ case_details = PlainCriteria
    /\ captcha_input = ""
    /\ initial_form_data = NoSnapshot
    /\ SearchIdle
    /\ WebIdle
    /\ WatchIdle

NextParse == ParseCauselistHtml

SpecParse == InitParse /\ [][NextParse]_vars

-----------------------------------------------------------------------------
(* claims about parse_causelist_html *)

(* a table without a cause-list keyword in its header text and without a   *)
(* mention of "view", "case no" or "case number" in its text               *)
C11_Unrelated(tbl) ==
    /\ \A k \in causelist_keywords : ~KeywordIn(HeaderText(tbl), k)
    /\ ~Contains(TableText(tbl), <<"view">>)
    /\ ~Contains(TableText(tbl), <<"case", SP, "no">>)
    /\ ~Contains(TableText(tbl), <<"case", SP, "number">>)

(* C11: parse_causelist_html returns for every document (it does not      *)
(* raise), what it returns is a sequence of entries, and the sequence is  *)
(* empty whenever the document has no table or only tables with no        *)
(* cause-list keyword in the header and no mention of "view", "case no"   *)
(* or "case number".                                                      *)
C11_TotalAndEmptyWithoutTable ==
    pc = "done" =>
        /\ entries # Nothing
        /\ \A i \in DOMAIN entries[1] :
             DOMAIN entries[1][i] = {"case_ref", "parties", "hearing_date"}
        /\ (\A t \in DOMAIN document : C11_Unrelated(document[t])) => entries[1] = <<>>

(* witness: a document with a table and a data row was parsed into nothing *)
C11_Witness ==
    /\ pc = "done"
    /\ entries = Some(<<>>)
    /\ \E t \in DOMAIN document :
         \E r \in DOMAIN document[t] :
             ~RowHasTh(document[t][r]) /\ Len(TdCells(document[t][r])) >= 2

(* a document of one table: a header row of the cause-list columns, in <th> *)
(* cells or as a first row of <td> cells, then data rows only               *)
C12_HeaderThenData ==
    /\ Len(document) = 1
    /\ document[1] # <<>>
    /\ document[1][1] \in {CauseHeader, CauseHeaderTd}
    /\ \A r \in 2..Len(document[1]) :
         ~RowHasTh(document[1][r]) /\ document[1][r] # <<>>

(* the entry of a data row *)
C12_Entry(row) ==
    LET dates == SelectSeq(Flatten([i \in DOMAIN row |-> row[i].text]), LAMBDA c : c \in DateToks)
    IN  [case_ref |-> IF Len(row) >= 2 THEN Strip(row[2].text) ELSE Strip(row[1].text),
         parties |-> IF Len(row) >= 3 THEN Strip(row[3].text) ELSE <<>>,
         hearing_date |-> IF dates = <<>> THEN <<>> ELSE <<dates[1]>>]

(* C12 (as claimed): for a table of one header row followed by data rows, *)
(* the parser returns one entry per data row, in order, and none for the  *)
(* header row, whether the header cells are <th> or the <td> cells of the *)
(* first row; each entry holds the second cell's text (the first's when   *)
(* the row has one cell), the third cell's text or empty, and the first   *)
(* date of the row or empty.                                              *)
C12_OneEntryPerDataRow ==
    (pc = "done" /\ C12_HeaderThenData) =>
        /\ Len(entries[1]) = Len(document[1]) - 1
        /\ \A i \in DOMAIN entries[1] : i < Len(document[1]) =>
             entries[1][i] = C12_Entry(document[1][i + 1])

-----------------------------------------------------------------------------
(* claims about /submit_captcha and the stored queries *)

(* C13 (as claimed): when fetch_ecourts_data has returned to              *)
(* /submit_captcha, whatever the search mode and the outcome, the request *)
(* stores exactly one CaseQuery holding the raw body returned, before it  *)
(* answers.                                                               *)
C13_OneQueryPerSearch ==
    [][(/\ pc = "done" /\ pc' = "idle"
        /\ result # Nothing /\ result[1].kind = "return"
        /\ case_details["search_criteria"] \in ModeFields) =>
         /\ Len(queries') = Len(queries) + 1
         /\ queries'[Len(queries')].raw_response = result[1].raw]_vars

-----------------------------------------------------------------------------
(* claims about the results table and its rows *)

(* the header score of the claim: the keywords found in the header text *)
C14_Score(tbl) ==
    Cardinality({k \in { <<"case", SP, "type">>, <<"case", SP, "number">>, <<"case", SP, "no">>,
                         <<"case", SP, "year">>, <<"sr", SP, "no">>, <<"petitioner">>,
                         <<"respondent">>, <<"party">>, <<"view">>, <<"hearing">>, <<"bench">> } :
                   KeywordIn(HeaderText(tbl), k)})

(* the search answered 2xx without a negative phrase and went on to the tables *)
C14_TablesRead == pc \in {"detail", "done"} /\ Ok2xx /\ ~C1_BodyIsNegative

(* C14 (as claimed): when the response holds several tables, the table    *)
(* parsed is one of the highest header score, provided that score is      *)
(* above 0: no table of the response scores higher than the one parsed.   *)
C14_ParsesHighestScore ==
    (C14_TablesRead /\ \E t \in DOMAIN response[1].body.tables :
                           C14_Score(response[1].body.tables[t]) > 0) =>
        /\ find_results_table(response[1].body) # 0
        /\ \A t \in DOMAIN response[1].body.tables :
             C14_Score(ResultsTable) >= C14_Score(response[1].body.tables[t])

(* C15 (as claimed): a structural-parse miss, no results table found or   *)
(* no usable row in the table found, returns (absent, raw body, message)  *)
(* and writes the diagnostic dump, in both cases.                         *)
C15_DumpOnEveryMiss ==
    (C14_TablesRead /\ pc = "done" /\ result[1].kind = "return" /\ result[1].parsed = Nothing) =>
        /\ result[1].raw = Some(response[1].body)
        /\ result[1].err # None
        /\ dumps = 1

(* a row with no header cell, two data cells and a non-empty second cell *)
C16_HasCaseRef(row) ==
    ~RowHasTh(row) /\ Len(TdCells(row)) >= 2 /\ Strip(CellRaw(TdCells(row)[2])) # <<>>

(* C16 (as claimed): the ParsedCase returned is taken from the first row  *)
(* of the results table with no header cell, at least two data cells and  *)
(* a non-empty case reference; earlier rows with an empty second cell are *)
(* skipped and cause no detail-page GET; at most one detail page is       *)
(* fetched.                                                               *)
C16_FirstRowWithCaseRef ==
    (C14_TablesRead /\ pc = "done" /\ result[1].kind = "return" /\ result[1].parsed # Nothing) =>
        LET first == FirstIdx(ResultsTable, C16_HasCaseRef)
            row == ResultsTable[first]
            anchors == RowAnchors(row)
        IN  /\ first # 0
            /\ result[1].parsed[1].case_ref = Strip(CellRaw(TdCells(row)[2]))
            /\ Len(DetailGets) <= 1
            /\ \A g \in DOMAIN DetailGets :
                 \E a \in DOMAIN anchors :
                     DetailGets[g].url = UrlJoin(response[1].url, anchors[a].href)

(* the detail-page GET of the chosen row was issued and failed *)
C17_DetailFailed ==
    /\ Done
    /\ result[1].kind = "return"
    /\ DetailGets # <<>>
    /\ DetailGets[1].status # 200

(* C17: when the detail-page GET of the chosen row fails, the call still  *)
(* returns a ParsedCase with error none and the raw body of the search    *)
(* response: case_ref and parties are those of the results row (parties   *)
(* "Not Found" when the row gives none), filing_date, next_hearing_date   *)
(* and case_status are "Not Found", judgment_link and detail_page_html    *)
(* are absent.                                                            *)
C17_DetailFailureDegrades ==
    C17_DetailFailed =>
        LET cells == TdCells(ResultRow)
            third == IF Len(cells) >= 3 THEN Strip(CellRaw(cells[3])) ELSE <<>>
        IN  /\ result[1].err = None
            /\ result[1].raw = Some(response[1].body)
            /\ result[1].parsed # Nothing
            /\ result[1].parsed[1] =
                 [case_ref |-> Strip(CellRaw(cells[2])),
                  parties |-> IF third = <<>> THEN <<"Not", SP, "Found">> ELSE third,
                  filing_date |-> <<"Not", SP, "Found">>,
                  next_hearing_date |-> <<"Not", SP, "Found">>,
                  case_status |-> <<"Not", SP, "Found">>,
                  judgment_link |-> None,
                  detail_page_html |-> Nothing]

(* witness: the detail page of a row with a case reference and parties   *)
(* could not be fetched                                                   *)
C17_Witness ==
    /\ C17_DetailFailed
    /\ result[1].parsed # Nothing
    /\ result[1].parsed[1].case_ref = <<"CRL.A", SP, "123/2024">>
    /\ result[1].parsed[1].parties = <<"A", SP, "vs", SP, "B">>
    /\ result[1].parsed[1].case_status = <<"Not", SP, "Found">>

-----------------------------------------------------------------------------
(* claims about the submitted payload *)

(* the payload keys used as aliases of an optional value *)
C18_Aliases ==
    { [of |-> "cino", key |-> "cino"],
      [of |-> "party_name", key |-> "party_name"], [of |-> "party_name", key |-> "party"],
      [of |-> "filing_number", key |-> "filing_no"], [of |-> "advocate_name", key |-> "advocate"],
      [of |-> "fir_number", key |-> "fir_no"], [of |-> "act", key |-> "act"] }

(* C18 (as claimed): for each optional value the user supplied (CNR id,   *)
(* party name, filing number, advocate name, FIR number, act), an alias   *)
(* key already populated by the form snapshot keeps the snapshot's value  *)
(* in every payload posted, and an alias key the snapshot does not hold   *)
(* is in the payload; the CNR id and its key cino included.               *)
C18_SnapshotAliasesKept ==
    (focus = "aliases") =>
        \A r \in DOMAIN Posts : \A al \in C18_Aliases :
            Truthy(case_details[al.of]) =>
                /\ al.key \in DOMAIN Posts[r].data
                /\ al.key \in DOMAIN initial_form_data.hidden =>
                     Posts[r].data[al.key] = initial_form_data.hidden[al.key]

(* the user's state names an option of the jurisdiction select that has a value *)
C19_StateResolved ==
    LET user == Get(case_details, "state", NoneT)
    IN  \E s \in {C4_Select(IsJurisdictionName)} \ {Nothing} :
          \E i \in DOMAIN s[1].v :
            /\ user # <<>> /\ user # NoneT
            /\ Lower(s[1].v[i].k) = Lower(user)
            /\ Truthy(s[1].v[i].v)

(* C19 (as claimed): when the user's state name matches an option of the    *)
(* jurisdiction select, no payload posted carries the fallback value HCTN01, *)
(* whatever the name of the select the option belongs to.                    *)
C19_FallbackOnlyUnresolved ==
    (focus = "state" /\ C19_StateResolved) =>
        \A r \in DOMAIN Posts : \A k \in DOMAIN Posts[r].data :
            Posts[r].data[k] # "HCTN01"

(* C20 (as claimed): every payload posted holds case_type, case_no, year and *)
(* captcha_code, and none of the first three is the absent value: each is    *)
(* the user's value or the blank string, also when the criteria built by     *)
(* /fetch hold the key with no value.                                        *)
C20_CoreFieldsNeverAbsent ==
    \A r \in DOMAIN Posts :
        /\ {"case_type", "case_no", "year", "captcha_code"} \subseteq DOMAIN Posts[r].data
        /\ \A k \in {"case_type", "case_no", "year"} : Posts[r].data[k] # None

-----------------------------------------------------------------------------
(* claims about the form snapshot *)

(* C21 (as claimed): with a form snapshot supplied the call issues no GET of *)
(* the search-form URL and the payload is seeded with the snapshot's hidden  *)
(* values when the payload steps begin; without a snapshot the form page is  *)
(* fetched once, whatever the outcome of that GET.                           *)
C21_SnapshotNotRefetched ==
    (focus = "snapshot") =>
        IF initial_form_data.kind = "snap"
        THEN /\ FormGets = <<>>
             /\ pc \in {"seeded", "refetched"} =>
                    form_data = Update(EmptyDict, initial_form_data.hidden)
        ELSE /\ Len(FormGets) <= 1
             /\ pc \in {"seeded", "responded", "post_failed"} => Len(FormGets) = 1

-----------------------------------------------------------------------------
(* claims about the frame of check_watches *)

(* a Watch without its last_notified *)
C22_Fixed(w) ==
    [id |-> w.id, monitor_url |-> w.monitor_url,
     case_identifier |-> w.case_identifier, active |-> w.active]

(* C22: every step of check_watches, failed fetches and failed commits       *)
(* included, keeps the set of watches and each watch's id, monitor URL,      *)
(* identifier and active flag; the watches evaluated are active ones and     *)
(* every new Notification is of an active watch; a watch evaluated with no   *)
(* matching entry is left as it was; and the Notifications already stored    *)
(* stay, unchanged and in place.                                             *)
C22_OnlyLastNotifiedChanges ==
    [][ /\ DOMAIN watches' = DOMAIN watches
        /\ \A i \in DOMAIN watches : C22_Fixed(watches'[i]) = C22_Fixed(watches[i])
        /\ \A i \in DOMAIN pass'.log : watches[pass'.log[i].watch_id].active
        /\ Len(notifications') >= Len(notifications)
        /\ SubSeq(notifications', 1, Len(notifications)) = notifications
        /\ \A i \in DOMAIN notifications' : watches[notifications'[i].watch_id].active
        /\ \A i \in DOMAIN watches :
             (\/ ~watches[i].active
              \/ /\ Len(pass'.log) = Len(pass.log) + 1
                 /\ pass'.log[Len(pass'.log)].watch_id = i
                 /\ Matching(pass'.log[Len(pass'.log)].parsed, watches[i].case_identifier) = <<>>)
             => watches'[i] = watches[i]
      ]_vars

(* two passes are over: an inactive watch sits beside an active one that was *)
(* notified of in one pass and whose fetch failed in the other               *)
C22_Witness ==
    /\ passes = 2 /\ ~pass.running
    /\ \E i \in DOMAIN watches : ~watches[i].active /\ watches[i].last_notified = 0
    /\ \E i \in DOMAIN pass.log : ~pass.log[i].fetched
    /\ notifications # <<>>

-----------------------------------------------------------------------------
(* claims about the web session *)

(* the session keys a submission reads *)
C23_Read == {"case_details", "scraper_cookies", "initial_form_data"}

(* C23 (as claimed): while /submit_captcha runs a search, the criteria, the  *)
(* portal cookies and the form snapshot held by the session were all stored  *)
(* by one and the same request, after any interleaving of /fetch,            *)
(* /api/highcourt_options and /submit_captcha requests.                      *)
C23_OneFetchPerSubmission ==
    (focus = "flow" /\ pc # "idle") =>
        \A j, k \in C23_Read \cap DOMAIN stored_by : stored_by[j] = stored_by[k]

-----------------------------------------------------------------------------
(* claims about the outcome of fetch_ecourts_data *)

(* C24 (as claimed): for every criteria mapping, one whose state has no      *)
(* value included, and every outcome of the HTTP requests, the call ends by  *)
(* returning a triple and never by raising; the triple is (ParsedCase, raw   *)
(* body, none), (absent, raw body, message) or (absent, absent, message), so *)
(* a ParsedCase is present exactly when the error is none.                   *)
C24_AlwaysReturnsTriple ==
    Done =>
        /\ result[1].kind = "return"
        /\ result[1].parsed # Nothing <=> result[1].err = None
        /\ result[1].parsed # Nothing => result[1].raw # Nothing

====
